---- MODULE Spec2Model ----
(***************************************************************************)
(* Model of the two scene generators of the repository:                    *)
(*   HighPerformanceSampleGenerator  (src/generate_sample_data.py)         *)
(*   PointCloudProcessor             (src/backend/app.py)                  *)
(*                                                                         *)
(* Lengths are in millimetres (1 unit = 0.001 of the source's unit), so    *)
(* the source's decimal literals are integers.  A list of points is kept   *)
(* run-length encoded: one run per extend() call, holding the number of    *)
(* points the call appended, the origin of the points and the extreme      *)
(* coordinates the random draws produced.  Rotations are multiples of      *)
(* pi/2 and are kept as a number of quarter turns.  Integers stand for the  *)
(* float64 values of the Python lists; the float32 values of a numpy array *)
(* are the multiples of F32Grid, and the conversion rounds to the nearest. *)
(***************************************************************************)
EXTENDS Integers, Sequences, FiniteSets, TLC

VARIABLES gen, preset, num_points, pc, idx, rng,
          all_points, all_labels, scene_objects, result, exc,
          mode, bi, files, written, prev

vars == <<gen, preset, num_points, pc, idx, rng,
          all_points, all_labels, scene_objects, result, exc,
          mode, bi, files, written, prev>>

\* the caller's state, which no step of a composer touches: who called
\* (mode), the position in generate_all_presets' loop (bi), the output
\* directory (files), the files this run completed (written) and the
\* objects of the call before this one (prev)
env == <<mode, bi, files, written, prev>>

(* ----------------------------- bounds ---------------------------------- *)

\* seeds of the random stream that are explored: 0..MaxSeed
MaxSeed == 1
\* parking lot: the first MaxFreeSpaces spaces of the lattice draw their
\* occupancy freely, the later ones repeat the outcome of the space before
MaxFreeSpaces == 3

\* the same bound for each of the two calls of a process that calls twice
MaxFreeSpacesTwice == 2

\* parking lot: the first MaxTypeDraws vehicles draw their type freely,
\* the later ones repeat the last type drawn
MaxTypeDraws == 1

\* the same bound for each of the two calls of a process that calls twice;
\* a vehicle with no type drawn before it is a sedan
MaxTypeDrawsTwice == 0

\* the requested point budgets that are explored
NumPointsChoices == {0, 1000, 2394, 2470, 3740, 10000, 12000}

Presets == {"traffic_scene", "urban_street", "parking_lot"}
PresetChoices == Presets \cup {"highway"}

(* --------------------------- numeric model ----------------------------- *)

\* spacing of the float32 grid, in units of the float64 grid
F32Grid == 4
\* period of the modelled random stream
RngMod == 7

\* np.float32(v): round to the nearest float32, ties to even
F32(v) ==
  LET q == v \div F32Grid
      r == v % F32Grid
  IN IF 2 * r < F32Grid THEN q * F32Grid
     ELSE IF 2 * r > F32Grid THEN (q + 1) * F32Grid
     ELSE IF q % 2 = 0 THEN q * F32Grid ELSE (q + 1) * F32Grid

\* the k-th draw of a sampler call made in random state r: how far inside
\* the declared interval the extreme sample of an axis falls
Draw(r, k) == ((r + 1) * (2 * k + 3)) % RngMod
\* the random state after a sampler call
NextRng(r) == (3 * r + 1) % RngMod

DigitStr == <<"0", "1", "2", "3", "4", "5", "6", "7", "8", "9">>
\* str(i) for a one-digit i
ToStr(i) == DigitStr[i + 1]

(* ------------------------------ point lists ---------------------------- *)

\* number of points of a run-length encoded list (len)
RECURSIVE RunLen(_)
RunLen(runs) ==
  IF runs = <<>> THEN 0 ELSE Head(runs).n + RunLen(Tail(runs))

\* the point set a sampler returns: n points drawn from the half-open box
\* [x0,x1) x [y0,y1) x [z0,z1), rotated by q quarter turns about the local
\* origin in the x-y plane and translated by (cx, cy)
RotBox(b, q) ==
  IF q = 0 THEN b
  ELSE IF q = 2 THEN [b EXCEPT !.x0 = -b.x1, !.x1 = -b.x0, !.y0 = -b.y1, !.y1 = -b.y0]
  ELSE IF q = 1 THEN [b EXCEPT !.x0 = -b.y1, !.x1 = -b.y0, !.y0 = b.x0, !.y1 = b.x1]
  ELSE [b EXCEPT !.x0 = b.y0, !.x1 = b.y1, !.y0 = -b.x1, !.y1 = -b.x0]

PointSet(n, cx, cy, q, x0, x1, y0, y1, z0, z1, r) ==
  LET lo(a, k) == a + Draw(r, k)
      hi(a, b, k) == IF n = 1 THEN a + Draw(r, k - 1) ELSE b - 1 - Draw(r, k)
      loc == [x0 |-> lo(x0, 0), x1 |-> hi(x0, x1, 1),
              y0 |-> lo(y0, 2), y1 |-> hi(y0, y1, 3),
              z0 |-> lo(z0, 4), z1 |-> hi(z0, z1, 5)]
      rot == RotBox(loc, q)
  IN [n |-> n,
      x0 |-> cx + rot.x0, x1 |-> cx + rot.x1,
      y0 |-> cy + rot.y0, y1 |-> cy + rot.y1,
      z0 |-> rot.z0, z1 |-> rot.z1]

\* the intensities of a sampler's points: base + uniform(0, width) lies in
\* [lo, hi], and rounding lets the sum reach hi
WithIntensity(pts, lo, hi, r) ==
  pts @@ [i0 |-> lo + Draw(r, 6),
          i1 |-> IF pts.n = 1 THEN lo + Draw(r, 6) ELSE hi - Draw(r, 7)]

\* list.extend(points): appends the sampler's points, tagged with the
\* object or surface that generated them
Extend(acc, pts, src) ==
  IF pts.n <= 0 THEN acc ELSE Append(acc, [src |-> src] @@ pts)

\* mutation of ExtendLabels: one label too many
ExtendLabels_OffByOne(acc, label, count) ==
  IF count <= 0 THEN acc ELSE Append(acc, [label |-> label, n |-> count + 1])

\* list.extend([label] * count)
ExtendLabels(acc, label, count) ==
  IF count <= 0 THEN acc ELSE Append(acc, [label |-> label, n |-> count])

\* np.array(all_points, dtype=np.float32)
ToFloat32(runs) ==
  [i \in 1..Len(runs) |->
     [k \in DOMAIN runs[i] |->
        IF k \in {"x0", "x1", "y0", "y1", "z0", "z1", "i0", "i1"}
          THEN F32(runs[i][k]) ELSE runs[i][k]]]

\* numpy .min() and .max() of a non-empty column
SetMin(S) == CHOOSE m \in S : \A v \in S : m <= v
SetMax(S) == CHOOSE m \in S : \A v \in S : m >= v

\* _calculate_bounds of a non-empty list
CalculateBounds(points) ==
  LET I == 1..Len(points)
  IN [x_min |-> SetMin({points[i].x0 : i \in I}),
      x_max |-> SetMax({points[i].x1 : i \in I}),
      y_min |-> SetMin({points[i].y0 : i \in I}),
      y_max |-> SetMax({points[i].y1 : i \in I}),
      z_min |-> SetMin({points[i].z0 : i \in I}),
      z_max |-> SetMax({points[i].z1 : i \in I})]

(* ------------------- HighPerformanceSampleGenerator -------------------- *)
(* samplers: each returns the points and the bounding box of one object    *)

\* a variant whose bounding box is centred on the sampled points
CreateTrafficLightDetailed_SampledCenter(center, rotation, r) ==
  [points |-> WithIntensity(PointSet(80 + 60 + 40, center[1], center[2], rotation,
                       -800, 150, -90, 90, 0, center[3] + 200, r), 600, 1000, r),
   bbox |-> [center |-> <<center[1] + Draw(r, 0), center[2], center[3]>>,
             size |-> <<300, 200, 400>>, rotation |-> rotation]]

\* _create_traffic_light_detailed: pole 80, housing 60 and arm 40 points
CreateTrafficLightDetailed(center, rotation, r) ==
  [points |-> WithIntensity(PointSet(80 + 60 + 40, center[1], center[2], rotation,
                       -800, 150, -90, 90, 0, center[3] + 200, r), 600, 1000, r),
   bbox |-> [center |-> center, size |-> <<300, 200, 400>>,
             rotation |-> rotation]]

\* mutation of VehicleDims: a truck is sampled with 500 points
VehicleDims_DenseTruck(vehicle_type) ==
  IF vehicle_type = "sedan"
    THEN [length |-> 4500, width |-> 1800, height |-> 1400, point_density |-> 250]
  ELSE IF vehicle_type = "suv"
    THEN [length |-> 4800, width |-> 2000, height |-> 1800, point_density |-> 300]
  ELSE IF vehicle_type = "truck"
    THEN [length |-> 6500, width |-> 2400, height |-> 2500, point_density |-> 500]
  ELSE [length |-> 3800, width |-> 1600, height |-> 1200, point_density |-> 200]

\* the dimensions and the point density of a vehicle type
VehicleDims(vehicle_type) ==
  IF vehicle_type = "sedan"
    THEN [length |-> 4500, width |-> 1800, height |-> 1400, point_density |-> 250]
  ELSE IF vehicle_type = "suv"
    THEN [length |-> 4800, width |-> 2000, height |-> 1800, point_density |-> 300]
  ELSE IF vehicle_type = "truck"
    THEN [length |-> 6500, width |-> 2400, height |-> 2500, point_density |-> 400]
  ELSE [length |-> 3800, width |-> 1600, height |-> 1200, point_density |-> 200]

\* _create_vehicle_detailed
CreateVehicleDetailed(center, rotation, vehicle_type, r) ==
  LET d == VehicleDims(vehicle_type)
  IN [points |-> WithIntensity(PointSet(d.point_density, center[1], center[2], rotation,
                          -(d.length \div 2), d.length \div 2,
                          -(d.width \div 2), d.width \div 2,
                          center[3], center[3] + d.height, r), 400, 1000, r),
      bbox |-> [center |-> <<center[1], center[2], center[3] + d.height \div 2>>,
                size |-> <<d.length, d.width, d.height>>,
                rotation |-> rotation]]

\* _create_building: int(length * width * height / 2) points
CreateBuilding(center, size, r) ==
  [points |-> WithIntensity(PointSet(((size[1] \div 1000) * (size[2] \div 1000)
                          * (size[3] \div 1000)) \div 2,
                       center[1], center[2], 0,
                       -(size[1] \div 2), size[1] \div 2,
                       -(size[2] \div 2), size[2] \div 2, 0, size[3], r), 300, 700, r),
   bbox |-> [center |-> center, size |-> size, rotation |-> 0]]

\* _create_lamp_post: pole 30 and housing 15 points
CreateLampPost(center, r) ==
  [points |-> WithIntensity(PointSet(30 + 15, center[1], center[2], 0,
                       -200, 200, -200, 200, 0, 4100, r), 500, 1000, r),
   bbox |-> [center |-> <<center[1], center[2], 2000>>,
             size |-> <<400, 400, 4000>>, rotation |-> 0]]

\* _create_bench: 40 points
CreateBench(center, r) ==
  [points |-> WithIntensity(PointSet(40, center[1], center[2], 0,
                       -800, 800, -200, 200, center[3], center[3] + 400, r), 400, 700, r),
   bbox |-> [center |-> <<center[1], center[2], center[3] + 200>>,
             size |-> <<1600, 400, 400>>, rotation |-> 0]]

\* _create_light_pole: pole 50 points and 3 fixtures of 10 points
CreateLightPole(center, r) ==
  [points |-> WithIntensity(PointSet(50 + 3 * 10, center[1], center[2], 0,
                       -350, 600, -533, 533, 0, center[3] + 200, r), 500, 1000, r),
   bbox |-> [center |-> <<center[1], center[2], center[3] \div 2>>,
             size |-> <<1000, 1000, center[3]>>, rotation |-> 0]]

\* mutation of RangeLen: a negative count is taken by its magnitude
RangeLen_Abs(n) == IF n < 0 THEN -n ELSE n

\* range(n) runs max(n, 0) times
RangeLen(n) == IF n < 0 THEN 0 ELSE n

\* mutation of Remaining: the points already placed are not subtracted
Remaining_IgnoresPlaced(n, points) == n

\* remaining_points = num_points - len(all_points)
Remaining(n, points) == n - RunLen(points)

\* _create_road_with_markings
CreateRoadWithMarkings(n, r) ==
  WithIntensity(PointSet(RangeLen(n), 0, 0, 0, -20000, 20000, -20000, 20000, -50, 50, r), 150, 1000, r)

\* _create_urban_road_surface
CreateUrbanRoadSurface(n, r) ==
  WithIntensity(PointSet(RangeLen(n), 0, 0, 0, -25000, 25000, -25000, 25000, -50, 250, r), 150, 600, r)

\* _create_parking_surface
CreateParkingSurface(n, r) ==
  WithIntensity(PointSet(RangeLen(n), 0, 0, 0, -25000, 25000, -25000, 25000, -20, 20, r), 200, 1000, r)

(* fixed layouts *)

\* _generate_traffic_intersection: traffic_lights
TrafficLights ==
  << [pos |-> <<8000, -3000, 4000>>, rotation |-> 0, id |-> "traffic_light_north"],
     [pos |-> <<-8000, 3000, 4000>>, rotation |-> 2, id |-> "traffic_light_south"],
     [pos |-> <<3000, 8000, 4000>>, rotation |-> -1, id |-> "traffic_light_east"],
     [pos |-> <<-3000, -8000, 4000>>, rotation |-> 1, id |-> "traffic_light_west"] >>

\* _generate_traffic_intersection: vehicles
Vehicles ==
  << [pos |-> <<5000, -8000, 800>>, rot |-> 0, type |-> "sedan", id |-> "car_north_1"],
     [pos |-> <<2000, -8000, 800>>, rot |-> 0, type |-> "suv", id |-> "car_north_2"],
     [pos |-> <<-5000, 8000, 800>>, rot |-> 2, type |-> "truck", id |-> "car_south_1"],
     [pos |-> <<-2000, 8000, 800>>, rot |-> 2, type |-> "sedan", id |-> "car_south_2"],
     [pos |-> <<8000, 5000, 800>>, rot |-> -1, type |-> "sedan", id |-> "car_east_1"],
     [pos |-> <<8000, -5000, 800>>, rot |-> 1, type |-> "suv", id |-> "car_west_1"] >>

\* _generate_urban_street: buildings
Buildings ==
  << [pos |-> <<15000, 0, 6000>>, size |-> <<8000, 20000, 12000>>, id |-> "building_east"],
     [pos |-> <<-15000, 0, 6000>>, size |-> <<8000, 20000, 12000>>, id |-> "building_west"],
     [pos |-> <<0, 25000, 4000>>, size |-> <<30000, 6000, 8000>>, id |-> "building_north"] >>

\* _generate_urban_street: furniture
Furniture ==
  << [pos |-> <<6000, -5000, 1000>>, type |-> "lamp_post", id |-> "lamp_1"],
     [pos |-> <<6000, 0, 1000>>, type |-> "lamp_post", id |-> "lamp_2"],
     [pos |-> <<6000, 5000, 1000>>, type |-> "lamp_post", id |-> "lamp_3"],
     [pos |-> <<-6000, -5000, 1000>>, type |-> "lamp_post", id |-> "lamp_4"],
     [pos |-> <<-6000, 0, 1000>>, type |-> "lamp_post", id |-> "lamp_5"],
     [pos |-> <<-6000, 5000, 1000>>, type |-> "lamp_post", id |-> "lamp_6"],
     [pos |-> <<8000, -8000, 400>>, type |-> "bench", id |-> "bench_1"],
     [pos |-> <<-8000, 8000, 400>>, type |-> "bench", id |-> "bench_2"] >>

\* _generate_urban_street: parked_cars
ParkedCars ==
  << [pos |-> <<10000, -10000, 800>>, rot |-> 0, id |-> "parked_car_1"],
     [pos |-> <<10000, -5000, 800>>, rot |-> 0, id |-> "parked_car_2"],
     [pos |-> <<-10000, 10000, 800>>, rot |-> 2, id |-> "parked_car_3"] >>

\* _generate_parking_lot: the lattice and the vehicle types
rows == 4
spaces_per_row == 6
vehicle_types == <<"sedan", "suv", "truck", "compact">>

\* _generate_parking_lot: infrastructure
Infrastructure ==
  << [pos |-> <<0, -20000, 3000>>, type |-> "light_pole", id |-> "pole_1"],
     [pos |-> <<10000, -10000, 3000>>, type |-> "light_pole", id |-> "pole_2"],
     [pos |-> <<-10000, -10000, 3000>>, type |-> "light_pole", id |-> "pole_3"],
     [pos |-> <<10000, 10000, 3000>>, type |-> "light_pole", id |-> "pole_4"],
     [pos |-> <<-10000, 10000, 3000>>, type |-> "light_pole", id |-> "pole_5"] >>

\* the dictionary a composer returns
Scene(points, labels, objects, scene_type) ==
  [points |-> ToFloat32(points),
   labels |-> labels,
   scene_objects |-> objects,
   scene_type |-> scene_type,
   metadata |-> [total_points |-> RunLen(points),
                 num_objects |-> Len(objects),
                 scene_bounds |-> CalculateBounds(points)]]

NoResult == [none |-> TRUE]

(* state *)

\* the files of the output directory
Extensions == {".parquet", ".ply", ".json"}
FileNames == {p \o e : p \in Presets, e \in Extensions} \cup {"metadata.json"}
AbsentFile == [state |-> "absent", version |-> "none", content |-> NoResult]
OldFile == [state |-> "complete", version |-> "old", content |-> NoResult]

\* a call of one dispatcher with arguments of the caller's choice
Init ==
  /\ gen \in {"generator", "processor"}
  /\ preset \in PresetChoices
  /\ num_points \in NumPointsChoices
  /\ rng \in 0..MaxSeed
  /\ pc = "call"
  /\ mode = "direct" /\ bi = 0 /\ written = <<>> /\ prev = <<>>
  /\ files = [f \in FileNames |-> AbsentFile]
  /\ idx = 0
  /\ all_points = <<>>
  /\ all_labels = <<>>
  /\ scene_objects = <<>>
  /\ result = NoResult
  /\ exc = "none"

args == <<gen, preset, num_points>>

\* where _generate_preset_data sends a preset name
PresetTarget(name) ==
  IF name = "traffic_scene" THEN "ti_lights"
  ELSE IF name = "urban_street" THEN "us_buildings"
  ELSE IF name = "parking_lot" THEN "pl_spaces"
  ELSE "raised"

\* _generate_preset_data: the else branch calls _generate_random_scene,
\* which the class does not define (AttributeError)
GeneratePresetData ==
  /\ gen = "generator" /\ pc = "call"
  /\ pc' = PresetTarget(preset)
  /\ exc' = IF PresetTarget(preset) = "raised" THEN "AttributeError" ELSE exc
  /\ idx' = 1
  /\ all_points' = <<>> /\ all_labels' = <<>> /\ scene_objects' = <<>>
  /\ UNCHANGED <<args, env, rng, result>>

\* the record _generate_traffic_intersection appends for a traffic light
TrafficLightObject(tl, s) ==
  [type |-> "traffic_light", id |-> tl.id, position |-> tl.pos,
   rotation |-> tl.rotation, bounding_box |-> s.bbox,
   num_points |-> s.points.n]

\* _generate_traffic_intersection: one iteration of the traffic light loop
TI_TrafficLight ==
  /\ gen = "generator" /\ pc = "ti_lights"
  /\ LET tl == TrafficLights[idx]
         s == CreateTrafficLightDetailed(tl.pos, tl.rotation, rng)
     IN /\ all_points' = Extend(all_points, s.points, tl.id)
        /\ all_labels' = ExtendLabels(all_labels, tl.id, s.points.n)
        /\ scene_objects' = Append(scene_objects, TrafficLightObject(tl, s))
  /\ rng' = NextRng(rng)
  /\ IF idx < Len(TrafficLights)
       THEN idx' = idx + 1 /\ pc' = pc
       ELSE idx' = 1 /\ pc' = "ti_vehicles"
  /\ UNCHANGED <<args, env, result, exc>>

\* mutation of VehicleObject: the type the urban street gives its cars
VehicleObject_ParkedType(vehicle, s) ==
  [type |-> "parked_vehicle", id |-> vehicle.id, vehicle_type |-> vehicle.type,
   position |-> vehicle.pos, rotation |-> vehicle.rot,
   bounding_box |-> s.bbox, num_points |-> s.points.n]

\* the record _generate_traffic_intersection appends for a vehicle
VehicleObject(vehicle, s) ==
  [type |-> "vehicle", id |-> vehicle.id, vehicle_type |-> vehicle.type,
   position |-> vehicle.pos, rotation |-> vehicle.rot,
   bounding_box |-> s.bbox, num_points |-> s.points.n]

\* _generate_traffic_intersection: one iteration of the vehicle loop
TI_Vehicle ==
  /\ gen = "generator" /\ pc = "ti_vehicles"
  /\ LET vehicle == Vehicles[idx]
         s == CreateVehicleDetailed(vehicle.pos, vehicle.rot, vehicle.type, rng)
     IN /\ all_points' = Extend(all_points, s.points, vehicle.id)
        /\ all_labels' = ExtendLabels(all_labels, vehicle.id, s.points.n)
        /\ scene_objects' = Append(scene_objects, VehicleObject(vehicle, s))
  /\ rng' = NextRng(rng)
  /\ IF idx < Len(Vehicles)
       THEN idx' = idx + 1 /\ pc' = pc
       ELSE idx' = 1 /\ pc' = "ti_surface"
  /\ UNCHANGED <<args, env, result, exc>>

\* _generate_traffic_intersection: the road surface fill
TI_Surface ==
  /\ gen = "generator" /\ pc = "ti_surface"
  /\ LET remaining_points == Remaining(num_points, all_points)
         road_points == CreateRoadWithMarkings(remaining_points, rng)
     IN /\ all_points' = Extend(all_points, road_points, "road_surface")
        /\ all_labels' = ExtendLabels(all_labels, "road_surface", road_points.n)
  /\ rng' = NextRng(rng)
  /\ pc' = "ti_return"
  /\ UNCHANGED <<args, env, idx, scene_objects, result, exc>>

\* the return statement of a composer; _calculate_bounds indexes a column
\* of the array, which fails on an empty list (IndexError)
Return(scene_type) ==
  /\ IF all_points = <<>>
       THEN /\ exc' = "IndexError" /\ pc' = "raised" /\ result' = result
       ELSE /\ result' = Scene(all_points, all_labels, scene_objects, scene_type)
            /\ pc' = "done" /\ exc' = exc
  /\ UNCHANGED <<args, env, idx, rng, all_points, all_labels, scene_objects>>

\* _generate_traffic_intersection: return
TI_Return ==
  /\ gen = "generator" /\ pc = "ti_return"
  /\ Return("traffic_intersection")

\* the record _generate_urban_street appends for a building
BuildingObject(building, s) ==
  [type |-> "building", id |-> building.id, position |-> building.pos,
   size |-> building.size, bounding_box |-> s.bbox,
   num_points |-> s.points.n]

\* _generate_urban_street: one iteration of the building loop
US_Building ==
  /\ gen = "generator" /\ pc = "us_buildings"
  /\ LET building == Buildings[idx]
         s == CreateBuilding(building.pos, building.size, rng)
     IN /\ all_points' = Extend(all_points, s.points, building.id)
        /\ all_labels' = ExtendLabels(all_labels, building.id, s.points.n)
        /\ scene_objects' = Append(scene_objects, BuildingObject(building, s))
  /\ rng' = NextRng(rng)
  /\ IF idx < Len(Buildings)
       THEN idx' = idx + 1 /\ pc' = pc
       ELSE idx' = 1 /\ pc' = "us_furniture"
  /\ UNCHANGED <<args, env, result, exc>>

\* mutation of FurnitureObject: the kind of furniture is taken as the type
FurnitureObject_ItemType(item, s) ==
  [type |-> item.type, id |-> item.id, furniture_type |-> item.type,
   position |-> item.pos, bounding_box |-> s.bbox,
   num_points |-> s.points.n]

\* the record _generate_urban_street appends for a piece of furniture
FurnitureObject(item, s) ==
  [type |-> "street_furniture", id |-> item.id, furniture_type |-> item.type,
   position |-> item.pos, bounding_box |-> s.bbox,
   num_points |-> s.points.n]

\* _generate_urban_street: one iteration of the furniture loop
US_Furniture ==
  /\ gen = "generator" /\ pc = "us_furniture"
  /\ LET item == Furniture[idx]
         s == IF item.type = "lamp_post" THEN CreateLampPost(item.pos, rng)
              ELSE CreateBench(item.pos, rng)
     IN /\ all_points' = Extend(all_points, s.points, item.id)
        /\ all_labels' = ExtendLabels(all_labels, item.id, s.points.n)
        /\ scene_objects' = Append(scene_objects, FurnitureObject(item, s))
  /\ rng' = NextRng(rng)
  /\ IF idx < Len(Furniture)
       THEN idx' = idx + 1 /\ pc' = pc
       ELSE idx' = 1 /\ pc' = "us_cars"
  /\ UNCHANGED <<args, env, result, exc>>

\* the record _generate_urban_street appends for a parked car
ParkedCarObject(car, s) ==
  [type |-> "parked_vehicle", id |-> car.id, position |-> car.pos,
   rotation |-> car.rot, bounding_box |-> s.bbox,
   num_points |-> s.points.n]

\* _generate_urban_street: one iteration of the parked car loop
US_ParkedCar ==
  /\ gen = "generator" /\ pc = "us_cars"
  /\ LET car == ParkedCars[idx]
         s == CreateVehicleDetailed(car.pos, car.rot, "sedan", rng)
     IN /\ all_points' = Extend(all_points, s.points, car.id)
        /\ all_labels' = ExtendLabels(all_labels, car.id, s.points.n)
        /\ scene_objects' = Append(scene_objects, ParkedCarObject(car, s))
  /\ rng' = NextRng(rng)
  /\ IF idx < Len(ParkedCars)
       THEN idx' = idx + 1 /\ pc' = pc
       ELSE idx' = 1 /\ pc' = "us_surface"
  /\ UNCHANGED <<args, env, result, exc>>

\* _generate_urban_street: the road and sidewalk fill
US_Surface ==
  /\ gen = "generator" /\ pc = "us_surface"
  /\ LET remaining_points == Remaining(num_points, all_points)
         road_points == CreateUrbanRoadSurface(remaining_points, rng)
     IN /\ all_points' = Extend(all_points, road_points, "road_surface")
        /\ all_labels' = ExtendLabels(all_labels, "road_surface", road_points.n)
  /\ rng' = NextRng(rng)
  /\ pc' = "us_return"
  /\ UNCHANGED <<args, env, idx, scene_objects, result, exc>>

\* _generate_urban_street: return
US_Return ==
  /\ gen = "generator" /\ pc = "us_return"
  /\ Return("urban_street")

\* mutation of ParkingVehicleObject: num_points is the sedan's density
ParkingVehicleObject_FixedCount(vehicle_id, vehicle_type, position, s) ==
  [type |-> "parked_vehicle", id |-> vehicle_id, vehicle_type |-> vehicle_type,
   position |-> position, rotation |-> 0, bounding_box |-> s.bbox,
   num_points |-> 250]

\* the record _generate_parking_lot appends for a vehicle
ParkingVehicleObject(vehicle_id, vehicle_type, position, s) ==
  [type |-> "parked_vehicle", id |-> vehicle_id, vehicle_type |-> vehicle_type,
   position |-> position, rotation |-> 0, bounding_box |-> s.bbox,
   num_points |-> s.points.n]

\* mutation of VehicleId: the space is left out of the id
VehicleId_RowOnly(row, space) == "parked_car_r" \o ToStr(row)

\* f"parked_car_r{row}_s{space}"
VehicleId(row, space) == "parked_car_r" \o ToStr(row) \o "_s" \o ToStr(space)

\* the outcomes of np.random.random() < 0.75 that are explored for the
\* k-th space visited (k from 1), given whether the space before is occupied
OccupancyDraws(k, prevOccupied) ==
  IF k <= (IF mode = "twice" THEN MaxFreeSpacesTwice ELSE MaxFreeSpaces)
    THEN BOOLEAN ELSE {prevOccupied}

\* the outcomes of np.random.choice(vehicle_types) that are explored
TypeDraws(objects) ==
  IF Len(objects) < (IF mode = "twice" THEN MaxTypeDrawsTwice ELSE MaxTypeDraws)
    THEN {vehicle_types[i] : i \in 1..Len(vehicle_types)}
  ELSE IF objects = <<>> THEN {vehicle_types[1]}
  ELSE {objects[Len(objects)].vehicle_type}

\* _generate_parking_lot: one iteration of the lattice loops; idx counts
\* the spaces visited, row by row
PL_Space ==
  /\ gen = "generator" /\ pc = "pl_spaces"
  /\ LET row == (idx - 1) \div spaces_per_row
         space == (idx - 1) % spaces_per_row
         x == ((2 * space - spaces_per_row) * 3000) \div 2
         y == ((2 * row - rows) * 8000) \div 2
         z == 800
         prevOccupied ==
           /\ idx > 1 /\ scene_objects # <<>>
           /\ scene_objects[Len(scene_objects)].id
                = VehicleId((idx - 2) \div spaces_per_row, (idx - 2) % spaces_per_row)
     IN \E occupied \in OccupancyDraws(idx, prevOccupied) :
          IF occupied
            THEN \E vehicle_type \in TypeDraws(scene_objects) :
                   LET vehicle_id == VehicleId(row, space)
                       s == CreateVehicleDetailed(<<x, y, z>>, 0, vehicle_type, rng)
                   IN /\ all_points' = Extend(all_points, s.points, vehicle_id)
                      /\ all_labels' = ExtendLabels(all_labels, vehicle_id, s.points.n)
                      /\ scene_objects' = Append(scene_objects,
                            ParkingVehicleObject(vehicle_id, vehicle_type, <<x, y, z>>, s))
                      /\ rng' = NextRng(rng)
            ELSE UNCHANGED <<all_points, all_labels, scene_objects, rng>>
  /\ IF idx < rows * spaces_per_row
       THEN idx' = idx + 1 /\ pc' = pc
       ELSE idx' = 1 /\ pc' = "pl_infrastructure"
  /\ UNCHANGED <<args, env, result, exc>>

\* the record _generate_parking_lot appends for a light pole
InfrastructureObject(item, s) ==
  [type |-> "infrastructure", id |-> item.id, infrastructure_type |-> item.type,
   position |-> item.pos, bounding_box |-> s.bbox,
   num_points |-> s.points.n]

\* _generate_parking_lot: one iteration of the infrastructure loop
PL_Infrastructure ==
  /\ gen = "generator" /\ pc = "pl_infrastructure"
  /\ LET item == Infrastructure[idx]
         s == CreateLightPole(item.pos, rng)
     IN /\ all_points' = Extend(all_points, s.points, item.id)
        /\ all_labels' = ExtendLabels(all_labels, item.id, s.points.n)
        /\ scene_objects' = Append(scene_objects, InfrastructureObject(item, s))
  /\ rng' = NextRng(rng)
  /\ IF idx < Len(Infrastructure)
       THEN idx' = idx + 1 /\ pc' = pc
       ELSE idx' = 1 /\ pc' = "pl_surface"
  /\ UNCHANGED <<args, env, result, exc>>

\* _generate_parking_lot: the parking surface fill
PL_Surface ==
  /\ gen = "generator" /\ pc = "pl_surface"
  /\ LET remaining_points == Remaining(num_points, all_points)
         surface_points == CreateParkingSurface(remaining_points, rng)
     IN /\ all_points' = Extend(all_points, surface_points, "parking_surface")
        /\ all_labels' = ExtendLabels(all_labels, "parking_surface", surface_points.n)
  /\ rng' = NextRng(rng)
  /\ pc' = "pl_return"
  /\ UNCHANGED <<args, env, idx, scene_objects, result, exc>>

\* _generate_parking_lot: return
PL_Return ==
  /\ gen = "generator" /\ pc = "pl_return"
  /\ Return("parking_lot")

(* ------------------------- PointCloudProcessor -------------------------- *)

\* _create_traffic_scene: the traffic light positions
LightPositions ==
  << <<5000, -2000, 3500>>, <<-5000, 2000, 3500>>, <<0, 5000, 3500>> >>

\* _create_traffic_scene: car_positions (x, y, z, yaw in hundredths of a radian)
CarPositions ==
  << <<8000, -5000, 800, 0>>, <<12000, -5000, 800, 0>>,
     <<-8000, 5000, 800, 314>>, <<-12000, 5000, 800, 314>>,
     <<2000, 10000, 800, 157>>, <<-2000, 10000, 800, 157>> >>

\* _generate_traffic_light: three loops of n // 3 points each
GenerateTrafficLight(center, n, r) ==
  WithIntensity([n |-> 3 * RangeLen(n \div 3)], 600, 1000, r)

\* mutation of GenerateCar: intensity 0.4 + uniform(0, 0.8)
GenerateCar_Bright(center, yaw, n, r) ==
  WithIntensity([n |-> RangeLen(n)], 400, 1200, r)

\* _generate_car: n points
GenerateCar(center, yaw, n, r) ==
  WithIntensity([n |-> RangeLen(n)], 400, 800, r)

\* _generate_road_surface: n points
GenerateRoadSurface(n, r) ==
  WithIntensity([n |-> RangeLen(n)], 200, 400, r)

\* mutation of Take: the slice keeps the whole list
Take_NoTruncate(runs, k) == runs

\* the slice list[:k] of a run-length encoded list, k >= 0
RECURSIVE Take(_, _)
Take(runs, k) ==
  IF runs = <<>> \/ k <= 0 THEN <<>>
  ELSE IF Head(runs).n <= k
    THEN <<Head(runs)>> \o Take(Tail(runs), k - Head(runs).n)
    ELSE <<[Head(runs) EXCEPT !.n = k]>>

\* the table _to_pyarrow_table builds: one column per field
Table(points, labels) ==
  [x |-> ToFloat32(points), y |-> ToFloat32(points), z |-> ToFloat32(points),
   intensity |-> ToFloat32(points),
   label |-> labels,
   timestamp |-> ExtendLabels(<<>>, "time", RunLen(points))]

\* the error _to_pyarrow_table ends with: indexing a column of the array
\* fails on an empty list, pa.table rejects columns of unequal length
TableError(points, labels) ==
  IF points = <<>> THEN "IndexError"
  ELSE IF RunLen(points) # RunLen(labels) THEN "ArrowInvalid"
  ELSE "none"

\* where generate_sample_data sends a preset name: _create_urban_street,
\* _create_parking_lot and _create_random_scene are not defined by the class
ProcessorTarget(name) ==
  IF name = "traffic_scene" THEN "ts_lights" ELSE "raised"

\* generate_sample_data
GenerateSampleData ==
  /\ gen = "processor" /\ pc = "call"
  /\ pc' = ProcessorTarget(preset)
  /\ exc' = IF ProcessorTarget(preset) = "raised" THEN "AttributeError" ELSE exc
  /\ idx' = 1
  /\ all_points' = <<>> /\ all_labels' = <<>> /\ scene_objects' = <<>>
  /\ UNCHANGED <<args, env, rng, result>>

\* _create_traffic_scene: one iteration of the traffic light loop
TS_TrafficLight ==
  /\ gen = "processor" /\ pc = "ts_lights"
  /\ LET label == "traffic_light_" \o ToStr(idx)
         light_points == GenerateTrafficLight(LightPositions[idx], 200, rng)
     IN /\ all_points' = Extend(all_points, light_points, label)
        /\ all_labels' = ExtendLabels(all_labels, label, light_points.n)
  /\ rng' = NextRng(rng)
  /\ IF idx < Len(LightPositions)
       THEN idx' = idx + 1 /\ pc' = pc
       ELSE idx' = 1 /\ pc' = "ts_cars"
  /\ UNCHANGED <<args, env, scene_objects, result, exc>>

\* _create_traffic_scene: one iteration of the car loop
TS_Car ==
  /\ gen = "processor" /\ pc = "ts_cars"
  /\ LET label == "car_" \o ToStr(idx)
         c == CarPositions[idx]
         car_points == GenerateCar(<<c[1], c[2], c[3]>>, c[4], 300, rng)
     IN /\ all_points' = Extend(all_points, car_points, label)
        /\ all_labels' = ExtendLabels(all_labels, label, car_points.n)
  /\ rng' = NextRng(rng)
  /\ IF idx < Len(CarPositions)
       THEN idx' = idx + 1 /\ pc' = pc
       ELSE idx' = 1 /\ pc' = "ts_road"
  /\ UNCHANGED <<args, env, scene_objects, result, exc>>

\* _create_traffic_scene: the road surface fill
TS_Road ==
  /\ gen = "processor" /\ pc = "ts_road"
  /\ LET remaining == Remaining(num_points, all_points)
         road_points == GenerateRoadSurface(remaining, rng)
     IN /\ all_points' = Extend(all_points, road_points, "road")
        /\ all_labels' = ExtendLabels(all_labels, "road", road_points.n)
  /\ rng' = NextRng(rng)
  /\ pc' = "ts_return"
  /\ UNCHANGED <<args, env, idx, scene_objects, result, exc>>

\* the two slices _create_traffic_scene hands to _to_pyarrow_table
SlicePoints(points, k) == Take(points, k)
SliceLabels(labels, k) == Take(labels, k)

\* _create_traffic_scene: return self._to_pyarrow_table(points[:n], labels[:n])
TS_Return ==
  /\ gen = "processor" /\ pc = "ts_return"
  /\ LET points == SlicePoints(all_points, num_points)
         labels == SliceLabels(all_labels, num_points)
     IN IF TableError(points, labels) = "none"
          THEN /\ result' = Table(points, labels)
               /\ pc' = "done" /\ exc' = exc
          ELSE /\ exc' = TableError(points, labels)
               /\ pc' = "raised" /\ result' = result
  /\ UNCHANGED <<args, env, idx, rng, all_points, all_labels, scene_objects>>

(* ---------------------------- specification ---------------------------- *)

Next ==
  \/ GeneratePresetData
  \/ TI_TrafficLight \/ TI_Vehicle \/ TI_Surface \/ TI_Return
  \/ US_Building \/ US_Furniture \/ US_ParkedCar \/ US_Surface \/ US_Return
  \/ PL_Space \/ PL_Infrastructure \/ PL_Surface \/ PL_Return
  \/ GenerateSampleData
  \/ TS_TrafficLight \/ TS_Car \/ TS_Road \/ TS_Return

Spec == Init /\ [][Next]_vars

(* ------------------ two calls with the same arguments ------------------ *)

\* what identifies the objects of a scene apart from their point clouds
ObjectSummary(objects) ==
  [k \in 1..Len(objects) |->
     [id |-> objects[k].id,
      center |-> objects[k].bounding_box.center,
      size |-> objects[k].bounding_box.size]]

\* one process that calls _generate_preset_data twice with one preset and
\* one num_points; the random stream goes on where the first call left it
InitTwoRuns ==
  /\ gen = "generator"
  /\ preset \in Presets
  /\ num_points = 10000
  /\ rng \in 0..MaxSeed
  /\ pc = "call"
  /\ idx = 0
  /\ all_points = <<>> /\ all_labels = <<>> /\ scene_objects = <<>>
  /\ result = NoResult /\ exc = "none"
  /\ mode = "twice" /\ bi = 1 /\ written = <<>> /\ prev = <<>>
  /\ files = [f \in FileNames |-> AbsentFile]

\* the caller keeps the objects of the first scene and calls again
SecondRun ==
  /\ mode = "twice" /\ pc = "done" /\ bi = 1
  /\ prev' = ObjectSummary(result.scene_objects)
  /\ bi' = 2
  /\ pc' = "call"
  /\ UNCHANGED <<args, idx, rng, all_points, all_labels, scene_objects,
                 result, exc, mode, files, written>>

NextTwoRuns ==
  \/ GeneratePresetData
  \/ TI_TrafficLight \/ TI_Vehicle \/ TI_Surface \/ TI_Return
  \/ US_Building \/ US_Furniture \/ US_ParkedCar \/ US_Surface \/ US_Return
  \/ PL_Space \/ PL_Infrastructure \/ PL_Surface \/ PL_Return
  \/ SecondRun

SpecTwoRuns == InitTwoRuns /\ [][NextTwoRuns]_vars

(* ------------------------------ exporters ------------------------------ *)

\* mutation of PresetList: the parking lot is generated first
PresetList_ParkingFirst ==
  << [name |-> "parking_lot", num_points |-> 18000],
     [name |-> "traffic_scene", num_points |-> 12000],
     [name |-> "urban_street", num_points |-> 15000] >>

\* the presets of generate_all_presets with their point budgets
PresetList ==
  << [name |-> "traffic_scene", num_points |-> 12000],
     [name |-> "urban_street", num_points |-> 15000],
     [name |-> "parking_lot", num_points |-> 18000] >>

\* the point budget of main when --preset is given
CliPoints == 10000

\* a scene with no points that a caller hands to an exporter
EmptyScene ==
  [points |-> <<>>, labels |-> <<>>, scene_objects |-> <<>>,
   scene_type |-> "empty",
   metadata |-> [total_points |-> 0, num_objects |-> 0]]

\* pa.array(data['points'][:, c], type=pa.float32()): one column of the
\* point array, run by run
Column(points, lo, hi) ==
  [k \in 1..Len(points) |->
     [n |-> points[k].n, lo |-> F32(points[k][lo]), hi |-> F32(points[k][hi])]]

\* the table _save_as_parquet writes
ParquetTable(data) ==
  [x |-> Column(data.points, "x0", "x1"),
   y |-> Column(data.points, "y0", "y1"),
   z |-> Column(data.points, "z0", "z1"),
   intensity |-> Column(data.points, "i0", "i1"),
   label |-> data.labels]

\* the multiple of d nearest to v
Nearest(v, d) == ((2 * v + d) \div (2 * d)) * d

\* str() of a float32: the decimal with the fewest digits among those that
\* read back as the same float32, that is, that lie less than half a grid
\* step from it
Repr32(v) ==
  LET reads(t) == 2 * t - 2 * v < F32Grid /\ 2 * v - 2 * t < F32Grid
  IN IF reads(Nearest(v, 1000)) THEN Nearest(v, 1000)
     ELSE IF reads(Nearest(v, 100)) THEN Nearest(v, 100)
     ELSE IF reads(Nearest(v, 10)) THEN Nearest(v, 10)
     ELSE v

\* mutation of PlyHeader: the vertex count is the number of runs
PlyHeader_CountsRuns(points) ==
  << [kind |-> "ply"],
     [kind |-> "format", name |-> "ascii", version |-> "1.0"],
     [kind |-> "element", name |-> "vertex", count |-> Len(points)],
     [kind |-> "property", type |-> "float", name |-> "x"],
     [kind |-> "property", type |-> "float", name |-> "y"],
     [kind |-> "property", type |-> "float", name |-> "z"],
     [kind |-> "property", type |-> "float", name |-> "intensity"],
     [kind |-> "end_header"] >>

\* the header lines _save_as_ply writes
PlyHeader(points) ==
  << [kind |-> "ply"],
     [kind |-> "format", name |-> "ascii", version |-> "1.0"],
     [kind |-> "element", name |-> "vertex", count |-> RunLen(points)],
     [kind |-> "property", type |-> "float", name |-> "x"],
     [kind |-> "property", type |-> "float", name |-> "y"],
     [kind |-> "property", type |-> "float", name |-> "z"],
     [kind |-> "property", type |-> "float", name |-> "intensity"],
     [kind |-> "end_header"] >>

\* mutation of PlyLines: the lines are written last point first
PlyLines_Reversed(points) ==
  [k \in 1..Len(points) |->
     LET p == points[Len(points) + 1 - k]
     IN [n |-> p.n,
         lo |-> <<Repr32(p.x0), Repr32(p.y0), Repr32(p.z0), Repr32(p.i0)>>,
         hi |-> <<Repr32(p.x1), Repr32(p.y1), Repr32(p.z1), Repr32(p.i1)>>]]

\* the point lines _save_as_ply writes: four space-separated numbers each
PlyLines(points) ==
  [k \in 1..Len(points) |->
     [n |-> points[k].n,
      lo |-> <<Repr32(points[k].x0), Repr32(points[k].y0),
               Repr32(points[k].z0), Repr32(points[k].i0)>>,
      hi |-> <<Repr32(points[k].x1), Repr32(points[k].y1),
               Repr32(points[k].z1), Repr32(points[k].i1)>>]]

\* the text _save_as_ply writes
PlyText(data) ==
  [header |-> PlyHeader(data.points), lines |-> PlyLines(data.points)]

\* JSON values as json.dump writes them
JNum(v) == [t |-> "number", v |-> v]
JStr(v) == [t |-> "string", v |-> v]
JArr(v) == [t |-> "array", v |-> v]
JObj(v) == [t |-> "object", v |-> v]

JNumArr(seq) == JArr([k \in 1..Len(seq) |-> JNum(seq[k])])

\* a dictionary whose values are numbers
JNumObj(d) == JObj([k \in DOMAIN d |-> JNum(d[k])])

\* a bounding box dictionary
JBox(b) ==
  JObj([k \in DOMAIN b |->
          IF k \in {"center", "size"} THEN JNumArr(b[k]) ELSE JNum(b[k])])

\* one scene object dictionary
JSceneObject(o) ==
  JObj([k \in DOMAIN o |->
          IF k = "bounding_box" THEN JBox(o[k])
          ELSE IF k \in {"position", "size"} THEN JNumArr(o[k])
          ELSE IF k \in {"rotation", "num_points"} THEN JNum(o[k])
          ELSE JStr(o[k])])

\* data['points'].tolist(): rows of four Python floats, run by run
JPoints(points) ==
  JArr([k \in 1..Len(points) |->
          JObj([n |-> JNum(points[k].n),
                lo |-> JNumArr(<<points[k].x0, points[k].y0,
                                 points[k].z0, points[k].i0>>),
                hi |-> JNumArr(<<points[k].x1, points[k].y1,
                                 points[k].z1, points[k].i1>>)])])

JLabels(labels) ==
  JArr([k \in 1..Len(labels) |->
          JObj([n |-> JNum(labels[k].n), label |-> JStr(labels[k].label)])])

\* the metadata dictionary of a scene
JMetadata(m) ==
  JObj([k \in DOMAIN m |->
          IF k = "scene_bounds" THEN JNumObj(m[k]) ELSE JNum(m[k])])

\* mutation of JsonOutputData: the objects are written without their boxes
JsonOutputData_NoBoxes(data) ==
  JObj([points |-> JPoints(data.points),
        labels |-> JLabels(data.labels),
        scene_objects |->
          JArr([k \in 1..Len(data.scene_objects) |->
                  JSceneObject([f \in DOMAIN data.scene_objects[k]
                                    \ {"bounding_box"} |->
                                  data.scene_objects[k][f]])]),
        metadata |-> JMetadata(data.metadata)])

\* the document _save_as_json writes
JsonOutputData(data) ==
  JObj([points |-> JPoints(data.points),
        labels |-> JLabels(data.labels),
        scene_objects |->
          JArr([k \in 1..Len(data.scene_objects) |->
                  JSceneObject(data.scene_objects[k])]),
        metadata |-> JMetadata(data.metadata)])

JStrObj(d) == JObj([k \in DOMAIN d |-> JStr(d[k])])

\* one entry of the presets list of _generate_metadata
PresetEntry(id, name, description) ==
  JObj([id |-> JStr(id), name |-> JStr(name), description |-> JStr(description),
        files |-> JStrObj([parquet |-> id \o ".parquet",
                           ply |-> id \o ".ply",
                           json |-> id \o ".json"])])

\* mutation of MetadataDocument: the parking lot is left out of the index
MetadataDocument_TwoPresets ==
  JObj([version |-> JStr("1.0"),
        generator |-> JStr("High-Performance Sample Generator"),
        formats |-> JArr(<<JStr("parquet"), JStr("ply"), JStr("json")>>),
        presets |-> JArr(<<
          PresetEntry("traffic_scene", "Traffic Intersection",
                      "Realistic intersection with traffic lights and vehicles"),
          PresetEntry("urban_street", "Urban Street",
                      "City street with buildings and infrastructure") >>),
        usage |-> JStrObj([parquet |-> "Fastest loading, use for production",
                           ply |-> "Standard format, good for visualization tools",
                           json |-> "Human readable, includes full metadata"])])

\* the document _generate_metadata writes
MetadataDocument ==
  JObj([version |-> JStr("1.0"),
        generator |-> JStr("High-Performance Sample Generator"),
        formats |-> JArr(<<JStr("parquet"), JStr("ply"), JStr("json")>>),
        presets |-> JArr(<<
          PresetEntry("traffic_scene", "Traffic Intersection",
                      "Realistic intersection with traffic lights and vehicles"),
          PresetEntry("urban_street", "Urban Street",
                      "City street with buildings and infrastructure"),
          PresetEntry("parking_lot", "Parking Lot",
                      "Shopping mall parking with organized vehicles") >>),
        usage |-> JStrObj([parquet |-> "Fastest loading, use for production",
                           ply |-> "Standard format, good for visualization tools",
                           json |-> "Human readable, includes full metadata"])])

\* the outcomes of an operation on the file system: it succeeds or it
\* raises OSError
IoOutcomes == BOOLEAN

\* open(path, 'w'), also inside pq.write_table: the file at the final path
\* is created or truncated
OpenFile(name, next) ==
  \E ok \in IoOutcomes :
    IF ok
      THEN /\ files' = [files EXCEPT ![name] =
                          [state |-> "partial", version |-> "new",
                           content |-> NoResult]]
           /\ pc' = next /\ exc' = exc
      ELSE /\ exc' = "OSError" /\ pc' = "raised" /\ files' = files

\* the writes and the close of an open file
WriteFile(name, content, next) ==
  \E ok \in IoOutcomes :
    IF ok
      THEN /\ files' = [files EXCEPT ![name] =
                          [state |-> "complete", version |-> "new",
                           content |-> content]]
           /\ written' = Append(written, name)
           /\ pc' = next /\ exc' = exc
      ELSE /\ exc' = "OSError" /\ pc' = "raised"
           /\ UNCHANGED <<files, written>>

\* the composer's locals, which an exporter does not touch
locals == <<idx, rng, all_points, all_labels, scene_objects, result>>

\* the caller has the scene and calls the first exporter
Exporting ==
  \/ pc = "parquet_open"
  \/ pc = "done" /\ mode \in {"batch", "cli"}

\* generate_all_presets: the head of the loop over the presets
GenerateAllPresets ==
  /\ mode = "batch" /\ pc = "loop"
  /\ IF bi <= Len(PresetList)
       THEN /\ preset' = PresetList[bi].name
            /\ num_points' = PresetList[bi].num_points
            /\ pc' = "call"
       ELSE /\ pc' = "metadata_open"
            /\ UNCHANGED <<preset, num_points>>
  /\ UNCHANGED <<gen, locals, exc, mode, bi, files, written, prev>>

\* _save_as_parquet: the table is built, then pq.write_table opens the file
SaveAsParquet_Open ==
  /\ Exporting
  /\ IF result.points = <<>>
       THEN /\ exc' = "IndexError" /\ pc' = "raised" /\ files' = files
       ELSE OpenFile(preset \o ".parquet", "parquet_write")
  /\ UNCHANGED <<args, locals, mode, bi, written, prev>>

\* _save_as_parquet: pq.write_table writes the table and closes the file
SaveAsParquet_Write ==
  /\ pc = "parquet_write"
  /\ WriteFile(preset \o ".parquet", ParquetTable(result),
               IF mode = "export" THEN "all_done" ELSE "ply_open")
  /\ UNCHANGED <<args, locals, mode, bi, prev>>

\* _save_as_ply: open(path, 'w')
SaveAsPly_Open ==
  /\ pc = "ply_open"
  /\ OpenFile(preset \o ".ply", "ply_write")
  /\ UNCHANGED <<args, locals, mode, bi, written, prev>>

\* _save_as_ply: the header, the point lines, and the close
SaveAsPly_Write ==
  /\ pc = "ply_write"
  /\ WriteFile(preset \o ".ply", PlyText(result),
               IF mode = "export" THEN "all_done" ELSE "json_open")
  /\ UNCHANGED <<args, locals, mode, bi, prev>>

\* _save_as_json: open(path, 'w')
SaveAsJson_Open ==
  /\ pc = "json_open"
  /\ OpenFile(preset \o ".json", "json_write")
  /\ UNCHANGED <<args, locals, mode, bi, written, prev>>

\* _save_as_json: json.dump and the close; generate_all_presets goes on
\* with the next preset
SaveAsJson_Write ==
  /\ pc = "json_write"
  /\ WriteFile(preset \o ".json", JsonOutputData(result),
               IF mode = "batch" THEN "loop" ELSE "all_done")
  /\ bi' = IF mode = "batch" /\ pc' = "loop" THEN bi + 1 ELSE bi
  /\ UNCHANGED <<args, locals, mode, prev>>

\* _generate_metadata: open(path, 'w')
GenerateMetadata_Open ==
  /\ pc = "metadata_open"
  /\ OpenFile("metadata.json", "metadata_write")
  /\ UNCHANGED <<args, locals, mode, bi, written, prev>>

\* _generate_metadata: json.dump and the close
GenerateMetadata_Write ==
  /\ pc = "metadata_write"
  /\ WriteFile("metadata.json", MetadataDocument, "all_done")
  /\ UNCHANGED <<args, locals, mode, bi, prev>>

\* main with or without --preset, or a caller that hands an empty scene to
\* one exporter; the output directory is empty or holds an earlier run's files
InitExport ==
  /\ gen = "generator"
  /\ rng \in 0..MaxSeed
  /\ idx = 0
  /\ all_points = <<>> /\ all_labels = <<>> /\ scene_objects = <<>>
  /\ exc = "none" /\ written = <<>> /\ prev = <<>>
  /\ files \in {[f \in FileNames |-> AbsentFile], [f \in FileNames |-> OldFile]}
  /\ \/ /\ mode = "batch" /\ bi = 1 /\ pc = "loop"
        /\ preset = PresetList[1].name /\ num_points = PresetList[1].num_points
        /\ result = NoResult
     \/ /\ mode = "cli" /\ bi = 0 /\ pc = "call"
        /\ preset \in PresetChoices /\ num_points = CliPoints
        /\ result = NoResult
     \/ /\ mode = "export" /\ bi = 0
        /\ pc \in {"parquet_open", "ply_open", "json_open"}
        /\ preset = "traffic_scene" /\ num_points = 0
        /\ result = EmptyScene

NextExport ==
  \/ GenerateAllPresets
  \/ GeneratePresetData
  \/ TI_TrafficLight \/ TI_Vehicle \/ TI_Surface \/ TI_Return
  \/ US_Building \/ US_Furniture \/ US_ParkedCar \/ US_Surface \/ US_Return
  \/ PL_Space \/ PL_Infrastructure \/ PL_Surface \/ PL_Return
  \/ SaveAsParquet_Open \/ SaveAsParquet_Write
  \/ SaveAsPly_Open \/ SaveAsPly_Write
  \/ SaveAsJson_Open \/ SaveAsJson_Write
  \/ GenerateMetadata_Open \/ GenerateMetadata_Write

SpecExport == InitExport /\ [][NextExport]_vars

(* ------------------------ samplers called alone ------------------------ *)

\* the requested point counts that are explored
SamplerCounts == {0, 1, 2, 3, 200, 300}

\* the samplers of each class that take a requested point count
SamplerNames(g) ==
  IF g = "processor"
    THEN {"_generate_traffic_light", "_generate_car", "_generate_road_surface"}
    ELSE {"_create_road_with_markings", "_create_urban_road_surface",
          "_create_parking_surface"}

\* the points a sampler returns for a requested count
SamplerPoints(name, n, r) ==
  IF name = "_generate_traffic_light"
    THEN GenerateTrafficLight(<<5000, -2000, 3500>>, n, r)
  ELSE IF name = "_generate_car" THEN GenerateCar(<<8000, -5000, 800>>, 0, n, r)
  ELSE IF name = "_generate_road_surface" THEN GenerateRoadSurface(n, r)
  ELSE IF name = "_create_road_with_markings" THEN CreateRoadWithMarkings(n, r)
  ELSE IF name = "_create_urban_road_surface" THEN CreateUrbanRoadSurface(n, r)
  ELSE CreateParkingSurface(n, r)

\* the yaw angles the layouts use: quarter turns in the generator (0, pi,
\* -pi/2, pi/2), hundredths of a radian in the processor (0, 3.14, 1.57)
Yaws(g) == IF g = "processor" THEN {0, 157, 314} ELSE {0, 1, 2, -1}

\* np.cos and np.sin of a yaw, in ten-thousandths: cos(1.57) = 0.0008,
\* sin(3.14) = 0.0016, and the quarter turns of the generator are exact
Cos(g, yaw) ==
  IF g = "processor"
    THEN (IF yaw = 0 THEN 10000 ELSE IF yaw = 157 THEN 8 ELSE -10000)
    ELSE (IF yaw = 0 THEN 10000 ELSE IF yaw = 2 THEN -10000 ELSE 0)

Sin(g, yaw) ==
  IF g = "processor"
    THEN (IF yaw = 0 THEN 0 ELSE IF yaw = 157 THEN 10000 ELSE 16)
    ELSE (IF yaw = 1 THEN 10000 ELSE IF yaw = -1 THEN -10000 ELSE 0)

\* a product of a length and a cosine or sine, back in millimetres
Scaled(v) == (2 * v + 10000) \div 20000

\* mutation of PlacePoint: the sine enters both coordinates with one sign
PlacePoint_SameSign(g, local, yaw, center) ==
  << center[1] + Scaled(local[1] * Cos(g, yaw) + local[2] * Sin(g, yaw)),
     center[2] + Scaled(local[1] * Sin(g, yaw) + local[2] * Cos(g, yaw)),
     center[3] + local[3] >>

\* world_x, world_y, world_z of _create_vehicle_detailed and _generate_car
PlacePoint(g, local, yaw, center) ==
  << center[1] + Scaled(local[1] * Cos(g, yaw) - local[2] * Sin(g, yaw)),
     center[2] + Scaled(local[1] * Sin(g, yaw) + local[2] * Cos(g, yaw)),
     center[3] + local[3] >>

\* local points of a sedan (4.5 x 1.8 x 1.4) and vehicle centres explored
LocalPoints ==
  {<<0, 0, 0>>, <<2250, 900, 1400>>, <<-2250, 900, 0>>, <<1000, -500, 700>>}

Centers == {<<0, 0, 0>>, <<8000, -5000, 800>>, <<-2000, 10000, 800>>}

\* one call of one sampler with a requested count, or one iteration of the
\* loop of a vehicle sampler with the local point it drew
InitSamplers ==
  /\ gen \in {"generator", "processor"}
  /\ rng \in 0..MaxSeed
  /\ preset = "traffic_scene"
  /\ pc = "sampler_call"
  /\ idx = 0
  /\ all_points = <<>> /\ all_labels = <<>> /\ scene_objects = <<>>
  /\ exc = "none"
  /\ mode = "sampler" /\ bi = 0 /\ written = <<>> /\ prev = <<>>
  /\ files = [f \in FileNames |-> AbsentFile]
  /\ \/ /\ num_points \in SamplerCounts
        /\ \E name \in SamplerNames(gen) : result = [sampler |-> name]
     \/ /\ num_points = 1
        /\ \E local \in LocalPoints, yaw \in Yaws(gen), center \in Centers :
             result = [sampler |-> "vehicle_point", local |-> local,
                       yaw |-> yaw, center |-> center]

\* the call of a sampler with the requested count num_points
CallSampler ==
  /\ mode = "sampler" /\ pc = "sampler_call"
  /\ result.sampler # "vehicle_point"
  /\ result' = result @@
                 [points |-> SamplerPoints(result.sampler, num_points, rng)]
  /\ rng' = NextRng(rng)
  /\ pc' = "sampler_returned"
  /\ UNCHANGED <<args, env, idx, all_points, all_labels, scene_objects, exc>>

\* one iteration of the point loop of a vehicle sampler
VehiclePoint ==
  /\ mode = "sampler" /\ pc = "sampler_call"
  /\ result.sampler = "vehicle_point"
  /\ result' = result @@
                 [world |-> PlacePoint(gen, result.local, result.yaw,
                                       result.center)]
  /\ rng' = NextRng(rng)
  /\ pc' = "sampler_returned"
  /\ UNCHANGED <<args, env, idx, all_points, all_labels, scene_objects, exc>>

NextSamplers == CallSampler \/ VehiclePoint

SpecSamplers == InitSamplers /\ [][NextSamplers]_vars

(* ------------------------------- claims -------------------------------- *)

\* the points the placed objects contributed, by their records
RECURSIVE ObjectPoints(_)
ObjectPoints(objects) ==
  IF objects = <<>> THEN 0
  ELSE Head(objects).num_points + ObjectPoints(Tail(objects))

\* the surface label of a preset of the generator
SurfaceLabel(name) ==
  IF name = "parking_lot" THEN "parking_surface" ELSE "road_surface"

\* the number of points of a list that carry a label (or an origin)
RECURSIVE CountLabel(_, _)
CountLabel(runs, label) ==
  IF runs = <<>> THEN 0
  ELSE (IF Head(runs).label = label THEN Head(runs).n ELSE 0)
       + CountLabel(Tail(runs), label)

RECURSIVE CountSrc(_, _)
CountSrc(runs, src) ==
  IF runs = <<>> THEN 0
  ELSE (IF Head(runs).src = src THEN Head(runs).n ELSE 0)
       + CountSrc(Tail(runs), src)

GeneratorDone == gen = "generator" /\ pc = "done"
ProcessorDone == gen = "processor" /\ pc = "done"
AfterSurface == pc \in {"ti_return", "us_return", "pl_return", "done", "raised"}

\* C1: a scene of a named preset whose budget num_points is at least the
\* points of the placed objects (2470 for traffic_scene, 3740 for
\* urban_street) has exactly num_points points, labels and total_points
C1_ExactBudget ==
  GeneratorDone =>
    /\ (preset = "traffic_scene" => ObjectPoints(result.scene_objects) = 2470)
    /\ (preset = "urban_street" => ObjectPoints(result.scene_objects) = 3740)
    /\ (num_points >= ObjectPoints(result.scene_objects) =>
          /\ RunLen(result.points) = num_points
          /\ RunLen(result.labels) = num_points
          /\ result.metadata.total_points = num_points)

C1_Witness ==
  /\ GeneratorDone /\ preset = "parking_lot"
  /\ Len(result.scene_objects) > 5
  /\ num_points > ObjectPoints(result.scene_objects)
  /\ RunLen(result.points) = num_points

\* C2: with a budget smaller than the objects' points a named preset does
\* not raise, the surface adds no point, no object point is dropped and
\* total_points reports the objects' count instead of num_points
C2_Underflow ==
  (gen = "generator" /\ AfterSurface
     /\ num_points < ObjectPoints(scene_objects)) =>
    /\ pc # "raised" /\ exc = "none"
    /\ CountSrc(all_points, SurfaceLabel(preset)) = 0
    /\ RunLen(all_points) = ObjectPoints(scene_objects)
    /\ \A i \in 1..Len(scene_objects) :
         CountSrc(all_points, scene_objects[i].id) = scene_objects[i].num_points
    /\ (pc = "done" =>
          /\ RunLen(result.points) = ObjectPoints(scene_objects)
          /\ RunLen(result.labels) = ObjectPoints(scene_objects)
          /\ result.metadata.total_points = ObjectPoints(scene_objects)
          /\ result.metadata.total_points # num_points)

C2_Witness ==
  /\ GeneratorDone /\ preset = "urban_street" /\ num_points = 0
  /\ result.metadata.total_points = 3740

\* C3: an unrecognised preset name does not raise in either dispatcher and
\* yields a non-empty scene of num_points points
C3_FallbackScene ==
  (preset \notin Presets /\ pc # "call") =>
    /\ pc # "raised"
    /\ (pc = "done" =>
          IF gen = "generator"
            THEN RunLen(result.points) = num_points /\ num_points > 0
            ELSE RunLen(result.x) = num_points /\ num_points > 0)

\* C4: generate_sample_data of the processor returns, for every named
\* preset and every num_points >= 0, a table whose x, y, z, intensity and
\* label columns have the same length
C4_TableColumns ==
  (gen = "processor" /\ preset \in Presets /\ num_points >= 0) =>
    /\ pc # "raised"
    /\ (pc = "done" =>
          /\ RunLen(result.x) = RunLen(result.y)
          /\ RunLen(result.y) = RunLen(result.z)
          /\ RunLen(result.z) = RunLen(result.intensity)
          /\ RunLen(result.intensity) = RunLen(result.label))

Ids(objects) == {objects[i].id : i \in 1..Len(objects)}

\* the number of objects of a type
CountType(objects, type) ==
  Cardinality({i \in 1..Len(objects) : objects[i].type = type})

DistinctIds(objects) ==
  \A i, j \in 1..Len(objects) : objects[i].id = objects[j].id => i = j

\* C6: traffic_scene with num_points = 12000 has exactly 4 traffic_light and
\* 6 vehicle objects, 10 objects with pairwise distinct ids, and every point
\* that is not an object's point is labelled "road_surface"
C6_TrafficScene ==
  (GeneratorDone /\ preset = "traffic_scene" /\ num_points = 12000) =>
    LET objects == result.scene_objects
        labels == result.labels
    IN /\ CountType(objects, "traffic_light") = 4
       /\ CountType(objects, "vehicle") = 6
       /\ Len(objects) = 10
       /\ DistinctIds(objects)
       /\ RunLen(labels) = 12000
       /\ CountLabel(labels, "road_surface") = 12000 - ObjectPoints(objects)
       /\ \A k \in 1..Len(labels) :
            labels[k].label \notin Ids(objects) => labels[k].label = "road_surface"

C6_Witness ==
  /\ GeneratorDone /\ preset = "traffic_scene" /\ num_points = 12000
  /\ CountLabel(result.labels, "road_surface") = 9530

\* C7: in every composer the points accumulator and the labels accumulator
\* have the same length after each placement step, and so has the pair
\* that is returned
C7_SameLength ==
  /\ RunLen(all_points) = RunLen(all_labels)
  /\ (GeneratorDone => RunLen(result.points) = RunLen(result.labels))
  /\ (ProcessorDone => RunLen(result.x) = RunLen(result.label))

C7_Witness ==
  /\ gen = "generator" /\ pc = "pl_surface"
  /\ Len(scene_objects) = rows * spaces_per_row + Len(Infrastructure)
  /\ RunLen(all_labels) = 24 * 400 + 5 * 80

\* C8: in a returned scene every label is the id of exactly one object or
\* the preset's surface label, the points labelled with an object's id
\* number the object's num_points, and row i of labels is the label of the
\* object or surface that generated row i of points
C8_LabelsMatchObjects ==
  GeneratorDone =>
    LET objects == result.scene_objects
        labels == result.labels
        points == result.points
    IN /\ \A k \in 1..Len(labels) :
            IF labels[k].label = SurfaceLabel(preset)
              THEN labels[k].label \notin Ids(objects)
              ELSE Cardinality({i \in 1..Len(objects) :
                                  objects[i].id = labels[k].label}) = 1
       /\ \A i \in 1..Len(objects) :
            CountLabel(labels, objects[i].id) = objects[i].num_points
       /\ Len(labels) = Len(points)
       /\ \A k \in 1..Len(labels) :
            labels[k].label = points[k].src /\ labels[k].n = points[k].n

C8_Witness ==
  /\ GeneratorDone /\ preset = "parking_lot"
  /\ \E i \in 1..Len(result.scene_objects) :
       /\ result.scene_objects[i].type = "parked_vehicle"
       /\ result.scene_objects[i].vehicle_type = "truck"
       /\ CountLabel(result.labels, result.scene_objects[i].id) = 400
  /\ CountLabel(result.labels, "parking_surface") > 0

\* C9: the ids of the scene objects are pairwise distinct and none is the
\* surface label, for every preset and every outcome of the parking lot's
\* occupancy and vehicle type draws
C9_UniqueIds ==
  gen = "generator" =>
    /\ DistinctIds(scene_objects)
    /\ SurfaceLabel(preset) \notin Ids(scene_objects)
    /\ (pc = "done" =>
          /\ DistinctIds(result.scene_objects)
          /\ SurfaceLabel(preset) \notin Ids(result.scene_objects))

C9_Witness ==
  /\ GeneratorDone /\ preset = "parking_lot"
  /\ Len(result.scene_objects) = 29
  /\ Cardinality(Ids(result.scene_objects)) = 29

\* C10: the scene bounds of a returned scene have min <= max on every axis
\* and every point of the returned points array lies inside them
C10_PointsInsideBounds ==
  GeneratorDone =>
    LET b == result.metadata.scene_bounds
        points == result.points
    IN /\ b.x_min <= b.x_max /\ b.y_min <= b.y_max /\ b.z_min <= b.z_max
       /\ \A k \in 1..Len(points) :
            /\ b.x_min <= points[k].x0 /\ points[k].x1 <= b.x_max
            /\ b.y_min <= points[k].y0 /\ points[k].y1 <= b.y_max
            /\ b.z_min <= points[k].z0 /\ points[k].z1 <= b.z_max

\* the runs of a list whose intensities leave [0, 1]
BadIntensity(runs) ==
  {k \in 1..Len(runs) : ~(0 <= runs[k].i0 /\ runs[k].i0 <= runs[k].i1
                            /\ runs[k].i1 <= 1000)}

\* C11: every point a sampler of either generator emits has an intensity
\* in [0, 1], as drawn and as stored in the float32 array or table
C11_IntensityRange ==
  /\ BadIntensity(all_points) = {}
  /\ (GeneratorDone => BadIntensity(result.points) = {})
  /\ (ProcessorDone => BadIntensity(result.intensity) = {})

C11_Witness ==
  /\ GeneratorDone /\ preset = "urban_street"
  /\ \E k \in 1..Len(result.points) :
       result.points[k].src = "lamp_3" /\ result.points[k].i1 = 1000

\* both calls of a process that calls twice have returned
BothRunsDone == mode = "twice" /\ bi = 2 /\ pc = "done"

\* the objects of a summary whose id is in a set
Restrict(summary, ids) ==
  {summary[k] : k \in {j \in 1..Len(summary) : summary[j].id \in ids}}

PoleIds == {Infrastructure[k].id : k \in 1..Len(Infrastructure)}

\* C12 as stated: two calls with the same preset and num_points return the
\* same ids with the same bounding_box.center and size, for every preset
C12_SameObjects ==
  BothRunsDone => ObjectSummary(result.scene_objects) = prev

\* C12: two calls with the same preset and num_points return the same ids
\* with the same bounding_box.center and size for traffic_scene and
\* urban_street; for parking_lot the light poles agree, and a space that
\* is occupied in both scenes has the same horizontal centre in both
C12_FixedLayoutObjects ==
  BothRunsDone =>
    LET now == ObjectSummary(result.scene_objects)
    IN IF preset # "parking_lot"
         THEN now = prev
         ELSE /\ Restrict(now, PoleIds) = Restrict(prev, PoleIds)
              /\ Cardinality(Restrict(now, PoleIds)) = Len(Infrastructure)
              /\ \A a \in 1..Len(now), b \in 1..Len(prev) :
                   now[a].id = prev[b].id =>
                     /\ now[a].center[1] = prev[b].center[1]
                     /\ now[a].center[2] = prev[b].center[2]

C12_Witness ==
  /\ BothRunsDone /\ preset = "parking_lot"
  /\ Len(prev) > Len(Infrastructure)
  /\ Len(result.scene_objects) > Len(Infrastructure)
  /\ ObjectSummary(result.scene_objects) # prev

\* json.load: the Python value of a JSON value
RECURSIVE JsonLoad(_)
JsonLoad(j) ==
  IF j.t \in {"number", "string"} THEN j.v
  ELSE [k \in DOMAIN j.v |-> JsonLoad(j.v[k])]

\* the file an exporter wrote for the current preset in this run
NewFile(ext) ==
  /\ files[preset \o ext].state = "complete"
  /\ files[preset \o ext].version = "new"

\* the JSON file of the scene in memory is written
JsonWritten == mode \in {"batch", "cli"} /\ preset \in Presets /\ NewFile(".json")

\* C13: the scene_objects, metadata.total_points, metadata.num_objects and
\* labels parsed back from the file _save_as_json wrote equal those of the
\* scene in memory
C13_JsonRoundTrip ==
  JsonWritten =>
    LET doc == JsonLoad(files[preset \o ".json"].content)
    IN /\ doc.scene_objects = result.scene_objects
       /\ doc.metadata.total_points = result.metadata.total_points
       /\ doc.metadata.num_objects = result.metadata.num_objects
       /\ doc.labels = result.labels

C13_Witness ==
  /\ JsonWritten /\ mode = "batch" /\ preset = "parking_lot"
  /\ \E k \in 1..Len(result.scene_objects) :
       /\ result.scene_objects[k].type = "parked_vehicle"
       /\ result.scene_objects[k].vehicle_type = "truck"
  /\ result.labels[Len(result.labels)].label = "parking_surface"

\* the point array of a parsed JSON document, run by run
PointsOfDocument(doc) ==
  [k \in 1..Len(doc.points) |->
     [n |-> doc.points[k].n,
      x0 |-> doc.points[k].lo[1], x1 |-> doc.points[k].hi[1],
      y0 |-> doc.points[k].lo[2], y1 |-> doc.points[k].hi[2],
      z0 |-> doc.points[k].lo[3], z1 |-> doc.points[k].hi[3],
      i0 |-> doc.points[k].lo[4], i1 |-> doc.points[k].hi[4]]]

\* the point array of a scene without the origin of each run
PointsOfScene(points) ==
  [k \in 1..Len(points) |->
     [f \in DOMAIN points[k] \ {"src"} |-> points[k][f]]]

\* C14 as stated: points, labels, scene_objects, metadata and scene_type of
\* the scene in memory can all be recovered from the file _save_as_json wrote
C14_CompleteScene ==
  JsonWritten =>
    LET doc == JsonLoad(files[preset \o ".json"].content)
    IN /\ PointsOfDocument(doc) = PointsOfScene(result.points)
       /\ doc.labels = result.labels
       /\ doc.scene_objects = result.scene_objects
       /\ doc.metadata = result.metadata
       /\ "scene_type" \in DOMAIN doc
       /\ doc.scene_type = result.scene_type

\* the PLY file of the scene in memory is written
PlyWritten == preset \in Presets /\ NewFile(".ply")

\* C15: the file _save_as_ply wrote declares element vertex N and the four
\* float properties x, y, z, intensity, and holds N lines of four numbers;
\* with N = 0 it holds the header alone
C15_PlyLayout ==
  PlyWritten =>
    LET f == files[preset \o ".ply"].content
        N == RunLen(result.points)
    IN /\ f.header =
            << [kind |-> "ply"],
               [kind |-> "format", name |-> "ascii", version |-> "1.0"],
               [kind |-> "element", name |-> "vertex", count |-> N],
               [kind |-> "property", type |-> "float", name |-> "x"],
               [kind |-> "property", type |-> "float", name |-> "y"],
               [kind |-> "property", type |-> "float", name |-> "z"],
               [kind |-> "property", type |-> "float", name |-> "intensity"],
               [kind |-> "end_header"] >>
       /\ RunLen(f.lines) = N
       /\ \A k \in 1..Len(f.lines) :
            /\ DOMAIN f.lines[k] = {"n", "lo", "hi"}
            /\ Len(f.lines[k].lo) = 4 /\ Len(f.lines[k].hi) = 4
       /\ (N = 0 => f.lines = <<>>)

C15_Witness ==
  /\ mode = "export" /\ PlyWritten /\ pc = "all_done"
  /\ result.points = <<>>
  /\ files[preset \o ".ply"].content.header[3].count = 0

\* the three files of the scene in memory are written
AllFormatsWritten ==
  /\ mode \in {"batch", "cli"} /\ preset \in Presets
  /\ NewFile(".parquet") /\ NewFile(".ply") /\ NewFile(".json")

\* C16: row i of the parquet columns, line i of the PLY file and entry i of
\* the JSON points hold the x, y, z, intensity of point i of the scene, and
\* parquet label i is JSON label i
C16_SameRowOrder ==
  AllFormatsWritten =>
    LET table == files[preset \o ".parquet"].content
        lines == files[preset \o ".ply"].content.lines
        doc == JsonLoad(files[preset \o ".json"].content)
        pts == result.points
        col == <<table.x, table.y, table.z, table.intensity>>
        lo(k) == <<pts[k].x0, pts[k].y0, pts[k].z0, pts[k].i0>>
        hi(k) == <<pts[k].x1, pts[k].y1, pts[k].z1, pts[k].i1>>
    IN /\ Len(lines) = Len(pts) /\ Len(doc.points) = Len(pts)
       /\ \A c \in 1..4 : Len(col[c]) = Len(pts)
       /\ \A k \in 1..Len(pts) :
            /\ lines[k].n = pts[k].n /\ doc.points[k].n = pts[k].n
            /\ \A c \in 1..4 :
                 /\ col[c][k].n = pts[k].n
                 /\ col[c][k].lo = lo(k)[c] /\ col[c][k].hi = hi(k)[c]
                 /\ F32(lines[k].lo[c]) = lo(k)[c]
                 /\ F32(lines[k].hi[c]) = hi(k)[c]
                 /\ F32(doc.points[k].lo[c]) = lo(k)[c]
                 /\ F32(doc.points[k].hi[c]) = hi(k)[c]
       /\ table.label = doc.labels

C16_Witness ==
  /\ AllFormatsWritten /\ mode = "batch" /\ preset = "urban_street"
  /\ Len(result.points) > Len(result.scene_objects)

\* C17 as stated: at every instant the file at each final path is absent,
\* the complete previous version or the complete new version
C17_NoTruncatedFile ==
  \A f \in FileNames : files[f].state \in {"absent", "complete"}

\* C18 as stated: when one export call of generate_all_presets fails with an
\* I/O error, every other export file of the run is still written
C18_OtherExportsWritten ==
  (mode = "batch" /\ pc = "raised" /\ exc = "OSError") =>
    Len(written) = Cardinality(FileNames) - 1

\* the elements of a sequence
Range(seq) == {seq[k] : k \in 1..Len(seq)}

\* C19: a successful run without --preset writes the three files of each of
\* the three presets and metadata.json, which lists exactly those presets,
\* names for each the three files written for it, declares the formats
\* parquet, ply and json and gives a usage note for each format
C19_BatchOutputs ==
  (mode = "batch" /\ pc = "all_done") =>
    LET md == JsonLoad(files["metadata.json"].content)
        formats == {"parquet", "ply", "json"}
    IN /\ Range(written) = FileNames
       /\ Len(written) = Cardinality(FileNames)
       /\ \A f \in FileNames :
            files[f].state = "complete" /\ files[f].version = "new"
       /\ Len(md.presets) = Cardinality(Presets)
       /\ {md.presets[k].id : k \in 1..Len(md.presets)} = Presets
       /\ \A k \in 1..Len(md.presets) :
            /\ DOMAIN md.presets[k].files = formats
            /\ \A e \in formats :
                 /\ md.presets[k].files[e] = md.presets[k].id \o "." \o e
                 /\ md.presets[k].files[e] \in Range(written)
       /\ Range(md.formats) = formats /\ Len(md.formats) = 3
       /\ DOMAIN md.usage = formats

C19_Witness ==
  /\ mode = "batch" /\ pc = "all_done" /\ exc = "none"
  /\ Len(written) = 10
  /\ written[Len(written)] = "metadata.json"

TypeEnum ==
  {"traffic_light", "vehicle", "building", "street_furniture", "infrastructure"}

\* C20 as stated: every object of every scene the generator returns has a
\* type among traffic_light, vehicle, building, street_furniture and
\* infrastructure
C20_TypeEnum ==
  GeneratorDone =>
    \A k \in 1..Len(result.scene_objects) :
      result.scene_objects[k].type \in TypeEnum

\* C20: every object of every scene the generator returns has a type among
\* those five and parked_vehicle; the cars of traffic_scene are vehicle,
\* the cars of urban_street and parking_lot are parked_vehicle
C20_TypeEnumWithParked ==
  GeneratorDone =>
    \A k \in 1..Len(result.scene_objects) :
      LET o == result.scene_objects[k]
      IN /\ o.type \in TypeEnum \cup {"parked_vehicle"}
         /\ (o.type = "vehicle" => preset = "traffic_scene")
         /\ (o.type = "parked_vehicle" =>
               preset \in {"urban_street", "parking_lot"})

C20_Witness ==
  /\ GeneratorDone /\ preset = "urban_street"
  /\ \E k \in 1..Len(result.scene_objects) :
       /\ result.scene_objects[k].type = "parked_vehicle"
       /\ result.scene_objects[k].id = "parked_car_3"

\* a sampler called alone has returned
SamplerReturned ==
  mode = "sampler" /\ pc = "sampler_returned" /\ result.sampler # "vehicle_point"

\* C21 as stated: every sampler that takes a requested count n >= 0
\* returns exactly n points, and no points for n = 0
C21_ExactCount ==
  SamplerReturned => result.points.n = num_points

\* a vehicle sampler has placed the local point it drew
PointPlaced ==
  mode = "sampler" /\ pc = "sampler_returned" /\ result.sampler = "vehicle_point"

\* C22: the world point of a local point is the centre plus the local point
\* turned by the yaw about the z axis; its z is the centre's z plus the
\* local z whatever the yaw, and with yaw 0 and centre (0,0,0) it is the
\* local point
C22_RigidTransform ==
  PointPlaced =>
    LET l == result.local
        c == result.center
        w == result.world
        ex == l[1] * Cos(gen, result.yaw) - l[2] * Sin(gen, result.yaw)
        ey == l[1] * Sin(gen, result.yaw) + l[2] * Cos(gen, result.yaw)
        near(mm, e) == 2 * (10000 * mm - e) <= 10000
                       /\ 2 * (e - 10000 * mm) <= 10000
    IN /\ near(w[1] - c[1], ex)
       /\ near(w[2] - c[2], ey)
       /\ w[3] = c[3] + l[3]
       /\ \A t \in Yaws(gen) : PlacePoint(gen, l, t, c)[3] = w[3]
       /\ (result.yaw = 0 /\ c = <<0, 0, 0>> => w = l)
       /\ (gen = "generator" /\ result.yaw = 1 =>
             w = <<c[1] - l[2], c[2] + l[1], c[3] + l[3]>>)

C22_Witness ==
  /\ PointPlaced /\ gen = "processor" /\ result.yaw = 157
  /\ result.local = <<2250, 900, 1400>>
  /\ result.center = <<8000, -5000, 800>>
  /\ result.world = <<7102, -2749, 2200>>

\* the fields of a scene object record
ObjectFields ==
  {"type", "id", "position", "rotation", "size", "bounding_box", "num_points"}

\* C23 as stated: every scene object record of the generator carries type,
\* id, position, rotation, size, bounding_box and num_points, and its
\* rotation is 0 when the object is placed unrotated
C23_AllFields ==
  GeneratorDone =>
    \A k \in 1..Len(result.scene_objects) :
      LET o == result.scene_objects[k]
      IN /\ ObjectFields \subseteq DOMAIN o
         /\ (o.bounding_box.rotation = 0 => o.rotation = 0)

\* C24: whatever the occupancy and the vehicle types drawn, the objects of
\* the parking lot hold between 400 and 10000 points, so with num_points >=
\* 10000 the surface sampler gets a non-negative count and the scene has
\* exactly num_points points
C24_ParkingBudget ==
  (gen = "generator" /\ preset = "parking_lot") =>
    /\ (pc = "pl_surface" =>
          /\ 400 <= RunLen(all_points) /\ RunLen(all_points) <= 10000
          /\ ObjectPoints(scene_objects) = RunLen(all_points)
          /\ (num_points >= 10000 => Remaining(num_points, all_points) >= 0))
    /\ (pc = "done" /\ num_points >= 10000 =>
          /\ RunLen(result.points) = num_points
          /\ RunLen(result.labels) = num_points
          /\ result.metadata.total_points = num_points)

C24_Witness ==
  /\ mode = "cli" /\ preset = "parking_lot" /\ pc = "done"
  /\ num_points = 10000
  /\ Len(result.scene_objects) = rows * spaces_per_row + Len(Infrastructure)
  /\ ObjectPoints(result.scene_objects) = 10000
  /\ RunLen(result.points) = 10000
  /\ CountLabel(result.labels, "parking_surface") = 0

\* the files of a run without --preset, in the order the claim gives
ExpectedOrder ==
  << "traffic_scene.parquet", "traffic_scene.ply", "traffic_scene.json",
     "urban_street.parquet", "urban_street.ply", "urban_street.json",
     "parking_lot.parquet", "parking_lot.ply", "parking_lot.json",
     "metadata.json" >>

\* C25: generate_all_presets completes its files in the order traffic_scene,
\* urban_street, parking_lot, each as parquet, ply, json, and opens
\* metadata.json only after the nine preset files are written; once
\* metadata.json is written, every file it lists was written before it
C25_ExportOrder ==
  mode = "batch" =>
    /\ Len(written) <= Len(ExpectedOrder)
    /\ \A k \in 1..Len(written) : written[k] = ExpectedOrder[k]
    /\ (files["metadata.json"].version = "new" =>
          /\ Len(written) >= 9
          /\ \A f \in FileNames \ {"metadata.json"} :
               files[f].state = "complete" /\ files[f].version = "new")
    /\ ("metadata.json" \in Range(written) =>
          LET md == JsonLoad(files["metadata.json"].content)
          IN \A k \in 1..Len(md.presets) :
               \A e \in DOMAIN md.presets[k].files :
                 \E j \in 1..9 : written[j] = md.presets[k].files[e])

C25_Witness ==
  /\ mode = "batch" /\ pc = "metadata_write"
  /\ files["metadata.json"].state = "partial"
  /\ Len(written) = 9
  /\ written[9] = "parking_lot.json"
  /\ written[1] = "traffic_scene.parquet"


====
